---- MODULE Spec2Model ----
(***************************************************************************)
(* Model of the streaming synthesis endpoint of the Kokoro TTS server,     *)
(* external/kokoro/kokoro_server.py: synthesize_stream and its nested      *)
(* generate_chunks / start_prefetch / synthesize_sentence.                 *)
(*                                                                         *)
(* generate_chunks is an async generator.  It runs on the event loop in    *)
(* blocks that are atomic between its suspension points: the await of a    *)
(* sentence's future (line 275) and the three yields (lines 230, 299, 305, *)
(* 312).  The calls of synthesize_sentence run on the threads of the       *)
(* request's ThreadPoolExecutor, concurrently with the generator.          *)
(***************************************************************************)
EXTENDS Integers, Sequences, FiniteSets, TLC

\* Bounds of the model.
MaxSentences == 5     \* largest number of sentences a request text splits into
MaxChunks == 2        \* largest number of audio chunks one sentence yields
MaxPairSentences == 2 \* most sentences of each of two concurrent requests
MaxHealth == 2        \* most GET /health requests answered
MaxTextLen == 6       \* longest request text, in characters

\* Constants of the program.
PREFETCH_COUNT == 2   \* line 237
max_workers == 2      \* line 179
ShutdownWait_blocking == TRUE  \* mutant: executor.shutdown(wait=True)
ShutdownWait == FALSE \* line 314: executor.shutdown(wait=False)

VARIABLES
    pc,               \* position of generate_chunks
    sentences,        \* the list of sentences (line 225)
    sentence_idx,     \* loop variable of line 261
    sub_idx,          \* loop variable of line 285
    audio_chunks,     \* the awaited list of chunks (line 275)
    chunk_index,      \* line 233
    pending_futures,  \* line 238: sentence index -> future
    task,             \* state of the executor's work item of each sentence
    result,           \* the list of chunks returned by a finished call
    work_queue,       \* FIFO queue of the executor (submitted, not yet taken)
    submits,          \* how often each sentence was submitted to the executor
    events,           \* the sequence of events yielded so far
    cancelled,        \* the stream was cancelled / the client disconnected
    shutdown,         \* executor.shutdown has been called
    pipeline_error,   \* an exception reached the handler of line 308
    text,             \* request.text, a sequence of characters (line 224)
    model,            \* whisper_server.py line 28
    model_loading,    \* whisper_server.py line 30
    model_ready,      \* whisper_server.py line 31
    thread,           \* position of the load_model thread (lines 66-81)
    health_pc,        \* position of a GET /health request (lines 86-110)
    health_log,       \* the answers of /health so far
    other             \* the locals of a second, concurrent request

\* The globals and threads of the Whisper server.
whisper_vars == <<model, model_loading, model_ready, thread, health_pc,
                  health_log>>

\* What a step of a stream leaves alone: the request text, which is only
\* read, and the other server.
outside_stream == <<text, whisper_vars, other>>

vars == <<pc, sentences, sentence_idx, sub_idx, audio_chunks, chunk_index,
          pending_futures, task, result, work_queue, submits, events,
          cancelled, shutdown, pipeline_error, text, whisper_vars, other>>

N == Len(sentences)
Indices == 0 .. (N - 1)

Min(a, b) == IF a < b THEN a ELSE b

\* range(a, b) of Python as a sequence
Range(a, b) == [k \in 1 .. (IF b > a THEN b - a ELSE 0) |-> a + k - 1]

\* The part of the state start_prefetch works on.
Pool == [pending_futures |-> pending_futures, task |-> task,
         work_queue |-> work_queue, submits |-> submits]

\* The sentence a future synthesizes: run_in_executor is given sentences[idx].
SentenceOf(idx) == idx

\* Mutant: start_prefetch without the test "idx in pending_futures".
start_prefetch_unguarded(st, idx) ==
    IF idx >= N
    THEN st
    ELSE [pending_futures |->
              [j \in DOMAIN st.pending_futures \cup {idx} |-> SentenceOf(j)],
          task |-> [st.task EXCEPT ![SentenceOf(idx)] = "queued"],
          work_queue |-> Append(st.work_queue, SentenceOf(idx)),
          submits |-> [st.submits EXCEPT ![SentenceOf(idx)] = @ + 1]]

\* start_prefetch (lines 240-254)
start_prefetch(st, idx) ==
    IF idx >= N \/ idx \in DOMAIN st.pending_futures
    THEN st
    ELSE [pending_futures |-> st.pending_futures @@ (idx :> SentenceOf(idx)),
          task |-> [st.task EXCEPT ![SentenceOf(idx)] = "queued"],
          work_queue |-> Append(st.work_queue, SentenceOf(idx)),
          submits |-> [st.submits EXCEPT ![SentenceOf(idx)] = @ + 1]]

RECURSIVE PrefetchAll(_, _)
PrefetchAll(st, idxs) ==
    IF idxs = << >> THEN st
    ELSE PrefetchAll(start_prefetch(st, Head(idxs)), Tail(idxs))

\* Mutant: no window, every later sentence is prefetched.
Lookahead_unbounded(idx) == Range(idx + 1, N)

\* Mutant: the window is one sentence wider.
Lookahead_wide(idx) == Range(idx + 1, Min(idx + PREFETCH_COUNT + 2, N))

\* Mutant: the window is one sentence short.
Lookahead_short(idx) == Range(idx + 1, Min(idx + PREFETCH_COUNT, N))

\* The sentences prefetched when the loop reaches idx (line 266).
Lookahead(idx) == Range(idx + 1, Min(idx + PREFETCH_COUNT + 1, N))

\* The initial batch (line 257).
InitialBatch == Range(0, Min(PREFETCH_COUNT + 1, N))

\* Mutant: the loop runs over range(len(sentences) - 1) and never reaches
\* the last sentence.
RECURSIVE LoopHead_stops_early(_, _)
LoopHead_stops_early(st, idx) ==
    IF idx >= N - 1 THEN [pool |-> st, idx |-> N]
    ELSE LET st2 == PrefetchAll(st, <<idx>> \o Lookahead(idx))
         IN IF idx \in DOMAIN st2.pending_futures
            THEN [pool |-> st2, idx |-> idx]
            ELSE LoopHead_stops_early(st2, idx + 1)

\* Head of the loop of line 261, from index idx on: prefetch, then find the
\* first sentence that has a future (lines 263-272).  idx = N: loop is over.
RECURSIVE LoopHead(_, _)
LoopHead(st, idx) ==
    IF idx >= N THEN [pool |-> st, idx |-> N]
    ELSE LET st2 == PrefetchAll(st, <<idx>> \o Lookahead(idx))
         IN IF idx \in DOMAIN st2.pending_futures
            THEN [pool |-> st2, idx |-> idx]
            ELSE LoopHead(st2, idx + 1)

\* Mutant: the running chunk counter is sent as the sentence index.
ChunkEvent_counter(ci, si, sub, chunks) ==
    [event |-> "chunk", chunk_index |-> ci, sentence_index |-> ci,
     sub_chunk_index |-> sub, total_sentences |-> N,
     audio |-> chunks[sub + 1],
     is_final |-> ((si = N - 1) /\ (sub = Len(chunks) - 1))]

\* Mutant: the chunk counter restarts with every sentence.
ChunkEvent_subindex(ci, si, sub, chunks) ==
    [event |-> "chunk", chunk_index |-> sub, sentence_index |-> si,
     sub_chunk_index |-> sub, total_sentences |-> N,
     audio |-> chunks[sub + 1],
     is_final |-> ((si = N - 1) /\ (sub = Len(chunks) - 1))]

\* Mutant: is_final marks the last chunk of every sentence.
ChunkEvent_final_each(ci, si, sub, chunks) ==
    [event |-> "chunk", chunk_index |-> ci, sentence_index |-> si,
     sub_chunk_index |-> sub, total_sentences |-> N,
     audio |-> chunks[sub + 1],
     is_final |-> (sub = Len(chunks) - 1)]

\* The events (lines 289-297, 305, 312, 230).  chunks is the awaited list;
\* its element sub is the audio sent (0-based, as in the code).
ChunkEvent(ci, si, sub, chunks) ==
    [event |-> "chunk", chunk_index |-> ci, sentence_index |-> si,
     sub_chunk_index |-> sub, total_sentences |-> N,
     audio |-> chunks[sub + 1],
     is_final |-> ((si = N - 1) /\ (sub = Len(chunks) - 1))]
\* Mutant: the completion reports the number of sentences.
CompleteEvent_sentences(ci) == [event |-> "complete", total_chunks |-> N]

CompleteEvent(ci) == [event |-> "complete", total_chunks |-> ci]
ErrorEvent == [event |-> "error"]

\* Mutant: the generator takes whichever pending future finished first.
future_first_done(idx) ==
    IF \E j \in DOMAIN pending_futures : task[pending_futures[j]] = "done"
    THEN pending_futures[CHOOSE j \in DOMAIN pending_futures :
                            task[pending_futures[j]] = "done"]
    ELSE pending_futures[idx]

\* The future awaited for the sentence at idx (line 270).
future(idx) == pending_futures[idx]

SetPool(st) ==
    /\ pending_futures' = st.pending_futures
    /\ task' = st.task
    /\ work_queue' = st.work_queue
    /\ submits' = st.submits

\* Go on with the loop at index idx with chunk counter ci: either await the
\* next future or, past the last sentence, yield the completion (line 305).
Continue(st, idx, ci) ==
    LET r == LoopHead(st, idx)
    IN /\ SetPool(r.pool)
       /\ sentence_idx' = r.idx
       /\ chunk_index' = ci
       /\ IF r.idx >= N
          THEN /\ events' = Append(events, CompleteEvent(ci))
               /\ pc' = "yield_complete"
          ELSE /\ events' = events
               /\ pc' = "await"

\* The Whisper server after import (lines 28-31): no model, no thread.
WhisperInit ==
    /\ model = "None"
    /\ model_loading = FALSE
    /\ model_ready = FALSE
    /\ thread = "unstarted"
    /\ health_pc = "idle"
    /\ health_log = << >>

\* A request whose text has already been split: the stream specification
\* takes the list of sentences as its input and leaves the text out.
Init ==
    /\ sentences \in {[i \in 1 .. n |-> i] : n \in 0 .. MaxSentences}
    /\ pc = "created"
    /\ sentence_idx = 0
    /\ sub_idx = 0
    /\ audio_chunks = << >>
    /\ chunk_index = 0
    /\ pending_futures = << >>
    /\ task = [i \in Indices |-> "none"]
    /\ result = [i \in Indices |-> << >>]
    /\ work_queue = << >>
    /\ submits = [i \in Indices |-> 0]
    /\ events = << >>
    /\ cancelled = FALSE
    /\ shutdown = FALSE
    /\ pipeline_error = FALSE
    /\ text = << >>
    /\ WhisperInit
    /\ other = "None"

\* Mutant: a text without sentences is answered with the error event.
Start_empty_is_error ==
    /\ pc = "created"
    /\ IF N = 0
       THEN /\ events' = Append(events, ErrorEvent)
            /\ pc' = "yield_error"
            /\ UNCHANGED <<sentence_idx, chunk_index, pending_futures, task,
                           work_queue, submits>>
       ELSE Continue(PrefetchAll(Pool, InitialBatch), 0, 0)
    /\ UNCHANGED <<sentences, sub_idx, audio_chunks, result, cancelled,
                   shutdown, pipeline_error>>
    /\ UNCHANGED outside_stream

\* First iteration of the generator: lines 214-275 up to the first
\* suspension.
Start ==
    /\ pc = "created"
    /\ IF N = 0
       THEN /\ events' = Append(events, CompleteEvent(0))
            /\ pc' = "yield_empty"
            /\ UNCHANGED <<sentence_idx, chunk_index, pending_futures, task,
                           work_queue, submits>>
       ELSE Continue(PrefetchAll(Pool, InitialBatch), 0, 0)
    /\ UNCHANGED <<sentences, sub_idx, audio_chunks, result, cancelled,
                   shutdown, pipeline_error>>
    /\ UNCHANGED outside_stream

\* The awaited future has a result (lines 275-299).
AwaitReturn ==
    /\ pc = "await"
    /\ task[future(sentence_idx)] = "done"
    /\ LET f == future(sentence_idx)
           k == result[f]
           st == [Pool EXCEPT !.pending_futures =
                     [i \in DOMAIN pending_futures \ {sentence_idx}
                         |-> pending_futures[i]]]
       IN /\ audio_chunks' = k
          /\ sub_idx' = 0
          /\ IF k = << >>
             THEN Continue(st, sentence_idx + 1, chunk_index)
             ELSE /\ SetPool(st)
                  /\ events' = Append(events,
                        ChunkEvent(chunk_index, sentence_idx, 0, k))
                  /\ pc' = "yield_payload"
                  /\ UNCHANGED <<sentence_idx, chunk_index>>
    /\ UNCHANGED <<sentences, result, cancelled, shutdown, pipeline_error>>
    /\ UNCHANGED outside_stream

\* Mutant: no inner try, the synthesis failure reaches the handler of
\* line 308.
AwaitRaise_propagates ==
    /\ pc = "await"
    /\ task[future(sentence_idx)] = "raised"
    /\ events' = Append(events, ErrorEvent)
    /\ pc' = "yield_error"
    /\ UNCHANGED <<sentences, sentence_idx, sub_idx, audio_chunks,
                   chunk_index, pending_futures, task, result, work_queue,
                   submits, cancelled, shutdown, pipeline_error>>
    /\ UNCHANGED outside_stream

\* Mutant: the handler of line 277 goes round the same sentence again, whose
\* future is still the failed one.
AwaitRaise_retry ==
    /\ pc = "await"
    /\ task[future(sentence_idx)] = "raised"
    /\ Continue(Pool, sentence_idx, chunk_index)
    /\ UNCHANGED <<sentences, sub_idx, audio_chunks, result, cancelled,
                   shutdown, pipeline_error>>
    /\ UNCHANGED outside_stream

\* The awaited future has an exception (lines 277-279).
AwaitRaise ==
    /\ pc = "await"
    /\ task[future(sentence_idx)] = "raised"
    /\ Continue(Pool, sentence_idx + 1, chunk_index)
    /\ UNCHANGED <<sentences, sub_idx, audio_chunks, result, cancelled,
                   shutdown, pipeline_error>>
    /\ UNCHANGED outside_stream

\* Mutant: only the first chunk of a sentence is sent.
ResumePayload_first_only ==
    /\ pc = "yield_payload"
    /\ Continue(Pool, sentence_idx + 1, chunk_index + 1)
    /\ UNCHANGED <<sentences, sub_idx, audio_chunks, result, cancelled,
                   shutdown, pipeline_error>>
    /\ UNCHANGED outside_stream

\* The consumer asks for the next event after a payload (lines 300-302, then
\* the next sub-chunk or the next sentence).
ResumePayload ==
    /\ pc = "yield_payload"
    /\ IF sub_idx + 1 < Len(audio_chunks)
       THEN /\ sub_idx' = sub_idx + 1
            /\ chunk_index' = chunk_index + 1
            /\ events' = Append(events,
                  ChunkEvent(chunk_index + 1, sentence_idx, sub_idx + 1,
                             audio_chunks))
            /\ UNCHANGED <<pc, sentence_idx, pending_futures, task,
                           work_queue, submits>>
       ELSE /\ Continue(Pool, sentence_idx + 1, chunk_index + 1)
            /\ UNCHANGED sub_idx
    /\ UNCHANGED <<sentences, audio_chunks, result, cancelled, shutdown,
                   pipeline_error>>
    /\ UNCHANGED outside_stream

\* The consumer asks for the next event after a terminal event: the
\* generator leaves the try statement (lines 231, 306, 312).
ResumeTerminal ==
    /\ pc \in {"yield_empty", "yield_complete", "yield_error"}
    /\ pc' = "finally"
    /\ UNCHANGED <<sentences, sentence_idx, sub_idx, audio_chunks,
                   chunk_index, pending_futures, task, result, work_queue,
                   submits, events, cancelled, shutdown, pipeline_error>>
    /\ UNCHANGED outside_stream

\* A block of the try statement raises an Exception that is not a synthesis
\* failure (lines 308-312).
PipelineException ==
    /\ \/ pc \in {"created", "yield_payload", "yield_complete"}
       \/ pc = "await" /\ task[future(sentence_idx)] \in {"done", "raised"}
    /\ pipeline_error' = TRUE
    /\ events' = Append(events, ErrorEvent)
    /\ pc' = "yield_error"
    /\ UNCHANGED <<sentences, sentence_idx, sub_idx, audio_chunks,
                   chunk_index, pending_futures, task, result, work_queue,
                   submits, cancelled, shutdown>>
    /\ UNCHANGED outside_stream

Suspended == {"await", "yield_payload", "yield_empty", "yield_complete",
              "yield_error"}

\* Mutant: the handler of line 308 catches BaseException, so a cancellation
\* is answered with the error event.
Cancel_caught ==
    /\ pc \in Suspended
    /\ cancelled' = TRUE
    /\ events' = Append(events, ErrorEvent)
    /\ pc' = "yield_error"
    /\ UNCHANGED <<sentences, sentence_idx, sub_idx, audio_chunks,
                   chunk_index, pending_futures, task, result, work_queue,
                   submits, shutdown, pipeline_error>>
    /\ UNCHANGED outside_stream

\* Mutant: the handler of line 277 catches the cancellation like a synthesis
\* failure and the loop goes on.
Cancel_swallowed ==
    /\ pc = "await"
    /\ cancelled' = TRUE
    /\ Continue(Pool, sentence_idx + 1, chunk_index)
    /\ UNCHANGED <<sentences, sub_idx, audio_chunks, result, shutdown,
                   pipeline_error>>
    /\ UNCHANGED outside_stream

\* The stream is cancelled while the generator is suspended: CancelledError
\* or GeneratorExit is thrown at the suspension point; neither is an
\* Exception, so only the finally clause runs.  A cancellation of the task
\* at the await also cancels the awaited future, which removes a work item
\* that no thread has taken yet.
Cancel ==
    /\ pc \in Suspended
    /\ cancelled' = TRUE
    /\ pc' = "finally"
    /\ \E cancel_future \in BOOLEAN :
          IF /\ cancel_future
             /\ pc = "await"
             /\ task[future(sentence_idx)] = "queued"
          THEN task' = [task EXCEPT ![future(sentence_idx)] = "cancelled"]
          ELSE task' = task
    /\ UNCHANGED <<sentences, sentence_idx, sub_idx, audio_chunks,
                   chunk_index, pending_futures, result, work_queue, submits,
                   events, shutdown, pipeline_error>>
    /\ UNCHANGED outside_stream

\* The response is dropped before the generator was ever iterated: the body
\* of generate_chunks, and so its finally clause, never runs.
CancelBeforeStart ==
    /\ pc = "created"
    /\ cancelled' = TRUE
    /\ pc' = "closed"
    /\ UNCHANGED <<sentences, sentence_idx, sub_idx, audio_chunks,
                   chunk_index, pending_futures, task, result, work_queue,
                   submits, events, shutdown, pipeline_error>>
    /\ UNCHANGED outside_stream

\* finally: executor.shutdown(wait=False) (lines 313-314)
ExecutorShutdown ==
    /\ pc = "finally"
    /\ ShutdownWait =>
          \A i \in Indices : task[i] \notin {"queued", "running", "hung"}
    /\ shutdown' = TRUE
    /\ pc' = "closed"
    /\ UNCHANGED <<sentences, sentence_idx, sub_idx, audio_chunks,
                   chunk_index, pending_futures, task, result, work_queue,
                   submits, events, cancelled, pipeline_error>>
    /\ UNCHANGED outside_stream

Busy == {i \in Indices : task[i] \in {"running", "hung"}}

\* Mutant: a free thread takes the newest work item.
WorkerStart_lifo ==
    /\ work_queue # << >>
    /\ Cardinality(Busy) < max_workers
    /\ work_queue' = SubSeq(work_queue, 1, Len(work_queue) - 1)
    /\ task' = IF task[work_queue[Len(work_queue)]] = "queued"
               THEN [task EXCEPT ![work_queue[Len(work_queue)]] = "running"]
               ELSE task
    /\ UNCHANGED <<pc, sentences, sentence_idx, sub_idx, audio_chunks,
                   chunk_index, pending_futures, result, submits, events,
                   cancelled, shutdown, pipeline_error>>
    /\ UNCHANGED outside_stream

\* Mutant: the executor starts a thread for every work item.
WorkerStart_unbounded ==
    /\ work_queue # << >>
    /\ work_queue' = Tail(work_queue)
    /\ task' = IF task[Head(work_queue)] = "queued"
               THEN [task EXCEPT ![Head(work_queue)] = "running"]
               ELSE task
    /\ UNCHANGED <<pc, sentences, sentence_idx, sub_idx, audio_chunks,
                   chunk_index, pending_futures, result, submits, events,
                   cancelled, shutdown, pipeline_error>>
    /\ UNCHANGED outside_stream

\* A free thread of the executor takes the oldest work item; an item whose
\* future was cancelled is dropped.
WorkerStart ==
    /\ work_queue # << >>
    /\ Cardinality(Busy) < max_workers
    /\ work_queue' = Tail(work_queue)
    /\ task' = IF task[Head(work_queue)] = "queued"
               THEN [task EXCEPT ![Head(work_queue)] = "running"]
               ELSE task
    /\ UNCHANGED <<pc, sentences, sentence_idx, sub_idx, audio_chunks,
                   chunk_index, pending_futures, result, submits, events,
                   cancelled, shutdown, pipeline_error>>
    /\ UNCHANGED outside_stream

\* The list synthesize_sentence returns for sentence i when the pipeline
\* yields k results: one WAV per result (lines 193-211).
Chunks(i, k) == [s \in 1 .. k |-> <<i, s - 1>>]

\* synthesize_sentence returns its list of chunks (lines 181-211).
WorkerReturn(i) ==
    /\ task[i] = "running"
    /\ \E k \in 0 .. MaxChunks :
          result' = [result EXCEPT ![i] = Chunks(i, k)]
    /\ task' = [task EXCEPT ![i] = "done"]
    /\ UNCHANGED <<pc, sentences, sentence_idx, sub_idx, audio_chunks,
                   chunk_index, pending_futures, work_queue, submits, events,
                   cancelled, shutdown, pipeline_error>>
    /\ UNCHANGED outside_stream

\* synthesize_sentence raises.
WorkerRaise(i) ==
    /\ task[i] = "running"
    /\ task' = [task EXCEPT ![i] = "raised"]
    /\ UNCHANGED <<pc, sentences, sentence_idx, sub_idx, audio_chunks,
                   chunk_index, pending_futures, result, work_queue, submits,
                   events, cancelled, shutdown, pipeline_error>>
    /\ UNCHANGED outside_stream

\* The backend call of synthesize_sentence never returns.
WorkerHang(i) ==
    /\ task[i] = "running"
    /\ task' = [task EXCEPT ![i] = "hung"]
    /\ UNCHANGED <<pc, sentences, sentence_idx, sub_idx, audio_chunks,
                   chunk_index, pending_futures, result, work_queue, submits,
                   events, cancelled, shutdown, pipeline_error>>
    /\ UNCHANGED outside_stream

Next ==
    \/ Start
    \/ AwaitReturn
    \/ AwaitRaise
    \/ ResumePayload
    \/ ResumeTerminal
    \/ PipelineException
    \/ Cancel
    \/ CancelBeforeStart
    \/ ExecutorShutdown
    \/ WorkerStart
    \/ \E i \in Indices : WorkerReturn(i)
    \/ \E i \in Indices : WorkerRaise(i)
    \/ \E i \in Indices : WorkerHang(i)

Spec == Init /\ [][Next]_vars

\* The stream of a client that stays connected and whose synthesis calls
\* all end: no cancellation, no call that hangs.
WorkerFinish == \E i \in Indices : WorkerReturn(i) \/ WorkerRaise(i)

LiveNext ==
    \/ Start
    \/ AwaitReturn
    \/ AwaitRaise
    \/ ResumePayload
    \/ ResumeTerminal
    \/ PipelineException
    \/ ExecutorShutdown
    \/ WorkerStart
    \/ WorkerFinish

\* The event loop runs the generator whenever it can go on, the consumer
\* asks for the next event after each one it got, a free thread takes the
\* next work item, and a running call ends.
LiveSpec ==
    /\ Init
    /\ [][LiveNext]_vars
    /\ WF_vars(Start)
    /\ WF_vars(AwaitReturn)
    /\ WF_vars(AwaitRaise)
    /\ WF_vars(ResumePayload)
    /\ WF_vars(ResumeTerminal)
    /\ WF_vars(ExecutorShutdown)
    /\ WF_vars(WorkerStart)
    /\ WF_vars(WorkerFinish)

(***************************************************************************)
(* Two concurrent requests (lines 178-179, 233-238)                        *)
(***************************************************************************)

\* What one call of synthesize_stream owns: its executor (line 179) and the
\* locals of its generate_chunks (lines 225, 233, 238, 261, 275, 285).
Locals ==
    [pc |-> pc, sentences |-> sentences, sentence_idx |-> sentence_idx,
     sub_idx |-> sub_idx, audio_chunks |-> audio_chunks,
     chunk_index |-> chunk_index, pending_futures |-> pending_futures,
     task |-> task, result |-> result, work_queue |-> work_queue,
     submits |-> submits, events |-> events, cancelled |-> cancelled,
     shutdown |-> shutdown, pipeline_error |-> pipeline_error]

\* The locals of a call whose text has n sentences, before its generator
\* is iterated.
NewCall(n) ==
    [pc |-> "created", sentences |-> [i \in 1 .. n |-> i], sentence_idx |-> 0,
     sub_idx |-> 0, audio_chunks |-> << >>, chunk_index |-> 0,
     pending_futures |-> << >>, task |-> [i \in 0 .. n - 1 |-> "none"],
     result |-> [i \in 0 .. n - 1 |-> << >>], work_queue |-> << >>,
     submits |-> [i \in 0 .. n - 1 |-> 0], events |-> << >>,
     cancelled |-> FALSE, shutdown |-> FALSE, pipeline_error |-> FALSE]

PairInit ==
    /\ \E n \in 0 .. MaxPairSentences :
          /\ pc = NewCall(n).pc
          /\ sentences = NewCall(n).sentences
          /\ sentence_idx = NewCall(n).sentence_idx
          /\ sub_idx = NewCall(n).sub_idx
          /\ audio_chunks = NewCall(n).audio_chunks
          /\ chunk_index = NewCall(n).chunk_index
          /\ pending_futures = NewCall(n).pending_futures
          /\ task = NewCall(n).task
          /\ result = NewCall(n).result
          /\ work_queue = NewCall(n).work_queue
          /\ submits = NewCall(n).submits
          /\ events = NewCall(n).events
          /\ cancelled = NewCall(n).cancelled
          /\ shutdown = NewCall(n).shutdown
          /\ pipeline_error = NewCall(n).pipeline_error
    /\ other \in {NewCall(n) : n \in 0 .. MaxPairSentences}
    /\ text = << >>
    /\ WhisperInit

\* Mutant: chunk_index is a global of the module, one counter for both
\* requests.
Switch_shared_counter ==
    /\ other' = Locals
    /\ pc' = other.pc
    /\ sentences' = other.sentences
    /\ sentence_idx' = other.sentence_idx
    /\ sub_idx' = other.sub_idx
    /\ audio_chunks' = other.audio_chunks
    /\ chunk_index' = chunk_index
    /\ pending_futures' = other.pending_futures
    /\ task' = other.task
    /\ result' = other.result
    /\ work_queue' = other.work_queue
    /\ submits' = other.submits
    /\ events' = other.events
    /\ cancelled' = other.cancelled
    /\ shutdown' = other.shutdown
    /\ pipeline_error' = other.pipeline_error
    /\ UNCHANGED <<text, whisper_vars>>

\* The next step is one of the other request: its generator on the event
\* loop or a thread of its executor.  Each request works on its own locals.
Switch ==
    /\ other' = Locals
    /\ pc' = other.pc
    /\ sentences' = other.sentences
    /\ sentence_idx' = other.sentence_idx
    /\ sub_idx' = other.sub_idx
    /\ audio_chunks' = other.audio_chunks
    /\ chunk_index' = other.chunk_index
    /\ pending_futures' = other.pending_futures
    /\ task' = other.task
    /\ result' = other.result
    /\ work_queue' = other.work_queue
    /\ submits' = other.submits
    /\ events' = other.events
    /\ cancelled' = other.cancelled
    /\ shutdown' = other.shutdown
    /\ pipeline_error' = other.pipeline_error
    /\ UNCHANGED <<text, whisper_vars>>

\* Two requests that are both served to their end: the steps of a stream
\* without disconnection, applied to the request whose turn it is.
PairNext ==
    \/ Start
    \/ AwaitReturn
    \/ AwaitRaise
    \/ ResumePayload
    \/ ResumeTerminal
    \/ ExecutorShutdown
    \/ WorkerStart
    \/ WorkerFinish
    \/ Switch

PairSpec == PairInit /\ [][PairNext]_vars

(***************************************************************************)
(* Segmentation of the request text (lines 224-225)                        *)
(***************************************************************************)

\* The characters request texts are drawn from: a letter, two terminal
\* marks, two kinds of whitespace.
Alphabet == {"a", ".", "!", " ", "\n"}
Texts == UNION {[1 .. n -> Alphabet] : n \in 0 .. MaxTextLen}

\* [.!?] of the pattern of line 224
Punctuation == {".", "!", "?"}
\* \s of the pattern, and what str.strip() removes
Whitespace == {" ", "\t", "\n", "\r", "\f"}

\* Mutant: the pattern has no lookbehind, any whitespace splits.
IsBoundary_any_space(t, pos) == t[pos] \in Whitespace

\* The pattern (?<=[.!?])\s+ matches at position pos of t: the character
\* before is a terminal mark and the one at pos is whitespace.
IsBoundary(t, pos) ==
    /\ pos > 1
    /\ t[pos - 1] \in Punctuation
    /\ t[pos] \in Whitespace

\* \s+ is greedy: the first position from pos on that is not whitespace.
RECURSIVE MatchEnd(_, _)
MatchEnd(t, pos) ==
    IF pos <= Len(t) /\ t[pos] \in Whitespace
    THEN MatchEnd(t, pos + 1)
    ELSE pos

\* re.split scanning t from pos, the current piece having begun at start:
\* the pieces between the matches, the text after the last match included.
RECURSIVE re_split_from(_, _, _)
re_split_from(t, pos, start) ==
    IF pos > Len(t) THEN <<SubSeq(t, start, Len(t))>>
    ELSE IF IsBoundary(t, pos)
         THEN <<SubSeq(t, start, pos - 1)>>
                 \o re_split_from(t, MatchEnd(t, pos), MatchEnd(t, pos))
         ELSE re_split_from(t, pos + 1, start)

re_split(t) == re_split_from(t, 1, 1)

\* str.strip()
RECURSIVE lstrip(_)
lstrip(str) ==
    IF str # << >> /\ Head(str) \in Whitespace THEN lstrip(Tail(str)) ELSE str
RECURSIVE rstrip(_)
rstrip(str) ==
    IF str # << >> /\ str[Len(str)] \in Whitespace
    THEN rstrip(SubSeq(str, 1, Len(str) - 1))
    ELSE str
strip(str) == rstrip(lstrip(str))

\* Mutant: the comprehension has no condition.
KeepSentence_all(piece) == TRUE

\* The condition of the comprehension of line 225: if s.strip()
KeepSentence(piece) == strip(piece) # << >>

\* [s.strip() for s in sentences if s.strip()]
StripAll(pieces) ==
    LET kept == SelectSeq(pieces, KeepSentence)
    IN [k \in 1 .. Len(kept) |-> strip(kept[k])]

\* A request with its text, before generate_chunks has run.
SegInit ==
    /\ text \in Texts
    /\ sentences = << >>
    /\ pc = "created"
    /\ sentence_idx = 0
    /\ sub_idx = 0
    /\ audio_chunks = << >>
    /\ chunk_index = 0
    /\ pending_futures = << >>
    /\ task = << >>
    /\ result = << >>
    /\ work_queue = << >>
    /\ submits = << >>
    /\ events = << >>
    /\ cancelled = FALSE
    /\ shutdown = FALSE
    /\ pipeline_error = FALSE
    /\ WhisperInit
    /\ other = "None"

\* What the two statements of the segmentation leave alone.
outside_segmentation ==
    <<sentence_idx, sub_idx, audio_chunks, chunk_index, pending_futures,
      task, result, work_queue, submits, events, cancelled, shutdown,
      pipeline_error, text, whisper_vars, other>>

\* line 224: sentences = re.split(r'(?<=[.!?])\s+', request.text)
Split ==
    /\ pc = "created"
    /\ sentences' = re_split(text)
    /\ pc' = "split"
    /\ UNCHANGED outside_segmentation

\* line 225: sentences = [s.strip() for s in sentences if s.strip()]
StripSentences ==
    /\ pc = "split"
    /\ sentences' = StripAll(sentences)
    /\ pc' = "segmented"
    /\ UNCHANGED outside_segmentation

SegNext ==
    \/ Split
    \/ StripSentences

SegSpec == SegInit /\ [][SegNext]_vars

(***************************************************************************)
(* The Whisper server: startup, load_model, GET /health                    *)
(* (external/whisper/whisper_server.py lines 27-110)                       *)
(*                                                                         *)
(* load_model runs on its own thread, concurrently with the handlers on    *)
(* the event loop; thread is the line it executes next.  A /health request *)
(* reads model_ready and model (line 90) and then model_loading (line 97); *)
(* the thread can run between the reads.                                   *)
(***************************************************************************)

\* No request is being served by the other server.
WhisperServerInit ==
    /\ WhisperInit
    /\ pc = "created"
    /\ sentences = << >>
    /\ sentence_idx = 0
    /\ sub_idx = 0
    /\ audio_chunks = << >>
    /\ chunk_index = 0
    /\ pending_futures = << >>
    /\ task = << >>
    /\ result = << >>
    /\ work_queue = << >>
    /\ submits = << >>
    /\ events = << >>
    /\ cancelled = FALSE
    /\ shutdown = FALSE
    /\ pipeline_error = FALSE
    /\ text = << >>
    /\ other = "None"

outside_whisper ==
    <<pc, sentences, sentence_idx, sub_idx, audio_chunks, chunk_index,
      pending_futures, task, result, work_queue, submits, events, cancelled,
      shutdown, pipeline_error, text, other>>

\* startup (lines 42-82): thread.start(); the handler does not wait for the
\* thread to run.  Requests are served once startup has returned.
Startup ==
    /\ thread = "unstarted"
    /\ thread' = "line68"
    /\ UNCHANGED <<model, model_loading, model_ready, health_pc, health_log>>
    /\ UNCHANGED outside_whisper

\* line 68: model_loading = True
LoadBegin ==
    /\ thread = "line68"
    /\ model_loading' = TRUE
    /\ thread' = "line71"
    /\ UNCHANGED <<model, model_ready, health_pc, health_log>>
    /\ UNCHANGED outside_whisper

\* line 71: WhisperModel(...) returns and model is assigned
LoadSucceed ==
    /\ thread = "line71"
    /\ model' = "WhisperModel"
    /\ thread' = "line72"
    /\ UNCHANGED <<model_loading, model_ready, health_pc, health_log>>
    /\ UNCHANGED outside_whisper

\* line 71: WhisperModel(...) raises; model is not assigned (line 74)
LoadFail ==
    /\ thread = "line71"
    /\ thread' = "line76"
    /\ UNCHANGED <<model, model_loading, model_ready, health_pc, health_log>>
    /\ UNCHANGED outside_whisper

\* line 72: model_ready = True
SetReady ==
    /\ thread = "line72"
    /\ model_ready' = TRUE
    /\ thread' = "line78"
    /\ UNCHANGED <<model, model_loading, health_pc, health_log>>
    /\ UNCHANGED outside_whisper

\* line 76: model_ready = False
HandleFailure ==
    /\ thread = "line76"
    /\ model_ready' = FALSE
    /\ thread' = "line78"
    /\ UNCHANGED <<model, model_loading, health_pc, health_log>>
    /\ UNCHANGED outside_whisper

\* line 78: finally: model_loading = False
LoadFinally ==
    /\ thread = "line78"
    /\ model_loading' = FALSE
    /\ thread' = "exited"
    /\ UNCHANGED <<model, model_ready, health_pc, health_log>>
    /\ UNCHANGED outside_whisper

\* WhisperModel(...) has raised
LoadFailed == thread \in {"line76", "line78", "exited"} /\ model = "None"
\* WhisperModel(...) has returned or raised
LoadFinished == thread \in {"line72", "line76", "line78", "exited"}

\* An answer of /health, with what was the case when it was given.
Answer(status) ==
    [status |-> status, failed |-> LoadFailed, finished |-> LoadFinished,
     ready |-> (model_ready /\ model # "None")]

\* line 90: if model_ready and model is not None: return status 'ready'
HealthIf ==
    /\ thread # "unstarted"
    /\ health_pc = "idle"
    /\ Len(health_log) < MaxHealth
    /\ IF model_ready /\ model # "None"
       THEN /\ health_log' = Append(health_log, Answer("ready"))
            /\ health_pc' = "idle"
       ELSE /\ health_pc' = "line97"
            /\ UNCHANGED health_log
    /\ UNCHANGED <<model, model_loading, model_ready, thread>>
    /\ UNCHANGED outside_whisper

\* lines 97-110: elif model_loading: return 'loading'; else: return 'error'
HealthElif ==
    /\ health_pc = "line97"
    /\ health_log' = Append(health_log,
          Answer(IF model_loading THEN "loading" ELSE "error"))
    /\ health_pc' = "idle"
    /\ UNCHANGED <<model, model_loading, model_ready, thread>>
    /\ UNCHANGED outside_whisper

WhisperNext ==
    \/ Startup
    \/ LoadBegin
    \/ LoadSucceed
    \/ LoadFail
    \/ SetReady
    \/ HandleFailure
    \/ LoadFinally
    \/ HealthIf
    \/ HealthElif

WhisperSpec == WhisperServerInit /\ [][WhisperNext]_vars

(***************************************************************************)
(* Properties                                                              *)
(***************************************************************************)

IsChunk(e) == e.event = "chunk"
Payloads == SelectSeq(events, IsChunk)
\* number of payload events carrying sentence_index i
Emitted(i) ==
    LET ps == Payloads
    IN Cardinality({p \in 1 .. Len(ps) : ps[p].sentence_index = i})
Completed == events # << >> /\ events[Len(events)].event = "complete"
\* the loop of line 261 is past sentence i
Passed(i) == i < sentence_idx
Failed(i) == task[i] = "raised"
\* each payload names the sentence of the one before it or a later one
NonDecreasing ==
    LET ps == Payloads
    IN \A a \in 1 .. Len(ps) - 1 :
          ps[a].sentence_index <= ps[a + 1].sentence_index

\* C1: payload events are emitted in sentence order whatever the order in
\* which the workers finish: sentence_index never decreases along the
\* stream, every payload carries the audio of the sentence it names, and no
\* payload of a sentence exists before the loop has reached that sentence
\* (a result that is ready early is held).
C1_OrderedEmission ==
    /\ NonDecreasing
    /\ \A p \in 1 .. Len(events) :
          IsChunk(events[p]) =>
              /\ events[p].audio[1] = events[p].sentence_index
              /\ events[p].audio[1] <= sentence_idx

\* C1 witness: sentence 1 has finished with audio while sentence 0 is still
\* running and awaited; nothing has been emitted.
C1_Witness ==
    /\ N >= 2
    /\ pc = "await" /\ sentence_idx = 0
    /\ task[0] = "running"
    /\ task[1] = "done" /\ result[1] # << >>
    /\ events = << >>

\* C2 (as stated): no two payload events of a stream carry the same
\* sentence_index, and in a stream that ended after its completion event
\* the sentence_index values of the payload events are exactly
\* 0, 1, ..., N-1.
C2_ExactlyOncePerSentence ==
    LET ps == Payloads
    IN /\ \A a, b \in 1 .. Len(ps) :
             a # b => ps[a].sentence_index # ps[b].sentence_index
       /\ (pc = "closed" /\ Completed) =>
             [p \in 1 .. Len(ps) |-> ps[p].sentence_index]
                 = [p \in 1 .. N |-> p - 1]

\* C2 (amended): in a stream that reached its completion event, the
\* sentence_index values never decrease and sentence i is named by exactly
\* as many payload events as its synthesis returned chunks: none when it
\* raised or returned an empty list.
C2_OncePerChunk ==
    Completed =>
        /\ NonDecreasing
        /\ \A i \in Indices :
              Emitted(i) = IF task[i] = "done" THEN Len(result[i]) ELSE 0

\* C2 witness: a completed stream with a failed sentence, a sentence of two
\* chunks and a sentence of one chunk.
C2_Witness ==
    /\ Completed
    /\ \E i, j, k \in Indices :
          Failed(i) /\ Emitted(j) = 2 /\ Emitted(k) = 1

\* C3: every sentence the loop is past whose synthesis raised or returned no
\* audio has an event of its own in the stream, carrying its sentence_index.
C3_FailedSentenceHasEvent ==
    \A i \in Indices :
        (Passed(i) /\ (Failed(i) \/ (task[i] = "done" /\ result[i] = << >>)))
            => \E p \in 1 .. Len(events) :
                  /\ events[p].event \notin {"complete", "error"}
                  /\ events[p].sentence_index = i

\* C4: a synthesis failure does not abort the stream: unless an exception
\* of the pipeline itself occurred there is no error event, every sentence
\* after a failed one that the loop is past and that returned chunks has all
\* of them in the stream, and a stream that was not cancelled ends with the
\* completion event.
C4_FailureIsolated ==
    ((\E i \in Indices : Failed(i)) /\ ~pipeline_error) =>
        /\ \A p \in 1 .. Len(events) : events[p].event # "error"
        /\ \A i, j \in Indices :
              (Failed(i) /\ i < j /\ Passed(j) /\ task[j] = "done")
                  => Emitted(j) = Len(result[j])
        /\ (pc \in {"finally", "closed"} /\ ~cancelled) => Completed

\* C4 witness: a stream that ended with the completion event in which a
\* sentence failed and a later one was emitted.
C4_Witness ==
    /\ pc = "closed" /\ ~cancelled /\ ~pipeline_error /\ Completed
    /\ \E i, j \in Indices : Failed(i) /\ i < j /\ Emitted(j) > 0

\* C5: a step that ends in a cancelled stream emits nothing: from the
\* cancellation on the sequence of events stays as it is.
C5_NoEmissionAfterCancel == [][cancelled' => events' = events]_vars

\* C5 witness: a cancelled stream that had emitted a payload, in which a
\* later sentence has finished with audio that was never sent.
C5_Witness ==
    /\ cancelled
    /\ Len(Payloads) = 1
    /\ \E j \in Indices :
          j > sentence_idx /\ task[j] = "done" /\ result[j] # << >>

\* C6: a step that ends in a cancelled stream submits nothing to the
\* executor, and a call that starts then belongs to a work item that was
\* submitted and queued before.
C6_NoDispatchAfterCancel ==
    [][cancelled' =>
          /\ submits' = submits
          /\ Len(work_queue') <= Len(work_queue)
          /\ \A i \in Indices :
                (task'[i] = "running" /\ task[i] # "running")
                    => (task[i] = "queued" /\ submits[i] = 1)]_vars

\* C6 witness: a cancelled stream with a call running and a sentence that
\* was never submitted.
C6_Witness ==
    /\ cancelled
    /\ \E i, j \in Indices : task[i] = "running" /\ submits[j] = 0

\* C7: whenever generate_chunks has ended, executor.shutdown was called;
\* and nothing is submitted after the shutdown.
C7_PoolReleased == pc = "closed" => shutdown

\* C8: the finally clause never waits: executor.shutdown can always be
\* taken at once, whatever calls are running or hung; and no step takes a
\* running call away from its thread: it stays running, returns, raises or
\* hangs.
C8_CancelDoesNotWait ==
    /\ [](pc = "finally" => ENABLED ExecutorShutdown)
    /\ [][\A i \in Indices :
            task[i] \in {"running", "hung"}
                => task'[i] \in {"running", "hung", "done", "raised"}]_vars

\* C8 witness: the cancelled generator has ended while one call never
\* returns and another is still running.
C8_Witness ==
    /\ cancelled /\ pc = "closed" /\ shutdown
    /\ \E i, j \in Indices : task[i] = "hung" /\ task[j] = "running"

\* C9: a call that never returns does not block the generator: when the
\* awaited call hangs, the await still ends (with the timeout failure).
C9_HungCallTimesOut ==
    (pc = "await" /\ task[future(sentence_idx)] = "hung")
        => ENABLED (AwaitReturn \/ AwaitRaise)

\* sentences submitted to the executor that the loop is not yet past
Outstanding == {i \in Indices : submits[i] > 0 /\ ~Passed(i)}

\* C10: the sentences submitted and not yet emitted or skipped are never
\* more than PREFETCH_COUNT + max_workers.
C10_BoundedLookahead ==
    Cardinality(Outstanding) <= PREFETCH_COUNT + max_workers

\* C10 witness: the generator is stalled at a payload yield with three
\* sentences outstanding, two of them finished and waiting.
C10_Witness ==
    /\ pc = "yield_payload"
    /\ Cardinality(Outstanding) = PREFETCH_COUNT + 1
    /\ Cardinality({i \in Outstanding : i > sentence_idx /\ task[i] = "done"})
          = PREFETCH_COUNT

\* the sentences submitted to the executor so far
Dispatched == {i \in Indices : submits[i] > 0}

\* C11: whenever the generator awaits the future of sentence i, the
\* sentences submitted so far are exactly 0 .. min(i + PREFETCH_COUNT, N-1).
C11_PrefetchWindow ==
    pc = "await" =>
        Dispatched = 0 .. Min(sentence_idx + PREFETCH_COUNT, N - 1)

\* C11 witness: the generator awaits sentence 1 of five; sentence 3 has
\* been submitted and sentence 4 has not.
C11_Witness ==
    /\ N = 5 /\ pc = "await" /\ sentence_idx = 1
    /\ submits[3] = 1 /\ submits[4] = 0

\* C12: no sentence is submitted to the executor more than once, and in a
\* stream that reached its completion event every sentence was submitted
\* exactly once.
C12_DispatchedOnce ==
    /\ \A i \in Indices : submits[i] <= 1
    /\ Completed => \A i \in Indices : submits[i] = 1

\* C12 witness: a completed stream of four sentences, one failed (its entry
\* is still in pending_futures) and one returned (its entry was deleted).
C12_Witness ==
    /\ Completed /\ N = 4
    /\ \E i, j \in Indices :
          /\ Failed(i) /\ i \in DOMAIN pending_futures
          /\ task[j] = "done" /\ j \notin DOMAIN pending_futures

\* the body of generate_chunks has run up to its first suspension
Started == pc # "created" /\ ~(pc = "closed" /\ ~shutdown)

\* C13: when the text has no sentence and the body of generate_chunks has
\* run without an exception of the pipeline, the stream is exactly the one
\* event {event: complete, total_chunks: 0}, and nothing was submitted to
\* the executor.
C13_EmptyInput ==
    (N = 0 /\ Started /\ ~pipeline_error) =>
        /\ events = <<[event |-> "complete", total_chunks |-> 0]>>
        /\ pending_futures = << >>
        /\ work_queue = << >>

\* C13 witness: the stream of a text without sentences has ended, not
\* cancelled.
C13_Witness ==
    /\ N = 0 /\ pc = "closed" /\ shutdown /\ ~cancelled /\ ~pipeline_error
    /\ Len(events) = 1

\* C14: the total_chunks of a completion event is the number of payload
\* events before it.
C14_TotalChunks ==
    \A p \in 1 .. Len(events) :
        events[p].event = "complete" =>
            events[p].total_chunks
                = Cardinality({q \in 1 .. p : IsChunk(events[q])})

\* C14 witness: a completed stream of three payloads in which one sentence
\* failed, one returned no audio and one returned two chunks.
C14_Witness ==
    /\ Completed /\ Len(Payloads) = 3
    /\ \E i, j, k \in Indices :
          /\ Failed(i)
          /\ task[j] = "done" /\ result[j] = << >>
          /\ Emitted(k) = 2

\* the sentences whose synthesis raised or returned no audio
Skipped == {i \in Indices : Failed(i) \/ (task[i] = "done" /\ result[i] = << >>)}
\* the sentences named by at least one payload event
Sent == {i \in Indices : Emitted(i) > 0}

\* C15 (as stated): in a stream that reached its completion event, the
\* number of payload events plus the number of sentences that failed (raised
\* or returned no audio) is the number of sentences.
C15_PayloadsPlusFailures ==
    Completed => Len(Payloads) + Cardinality(Skipped) = N

\* C15 (amended): in a stream that reached its completion event, every
\* sentence either failed (raised or returned no audio) or is named by
\* payload events, one per chunk it returned, and never both: the number of
\* sentences with payloads plus the number of failed sentences is the
\* number of sentences.
C15_SentOrSkipped ==
    Completed =>
        /\ Sent \cap Skipped = {}
        /\ Cardinality(Sent) + Cardinality(Skipped) = N
        /\ \A i \in Sent : Emitted(i) = Len(result[i])

\* C15 witness: a completed stream of three sentences: one failed, one of
\* two chunks and one of one chunk.
C15_Witness ==
    /\ Completed /\ N = 3
    /\ Cardinality(Skipped) = 1 /\ Len(Payloads) = 3

\* C16: the k-th payload event of a stream, counted from 0, carries
\* chunk_index k.
C16_DenseChunkIndex ==
    LET ps == Payloads
    IN \A p \in 1 .. Len(ps) : ps[p].chunk_index = p - 1

\* C16 witness: after a sentence of two chunks and a skipped sentence, the
\* third payload carries chunk_index 2 and sentence_index 2.
C16_Witness ==
    LET ps == Payloads
    IN /\ Len(ps) = 3
       /\ ps[3].chunk_index = 2 /\ ps[3].sentence_index = 2
       /\ ps[2].sentence_index = 0
       /\ 1 \in Skipped

\* C17: a payload event with is_final = true is the last payload of the
\* stream, so at most one payload carries it.
C17_FinalIsLast ==
    LET ps == Payloads
    IN \A p \in 1 .. Len(ps) : ps[p].is_final => p = Len(ps)

\* C17 witness: a completed stream of two sentences with three payloads, the
\* last of them final.
C17_Witness ==
    LET ps == Payloads
    IN /\ Completed /\ N = 2 /\ Len(ps) = 3
       /\ ps[3].is_final /\ ps[1].sentence_index = 0

Terminal(e) == e.event \in {"complete", "error"}

\* C18: in a stream that is not cancelled a terminal event (complete or
\* error) is the last event, so there is at most one; and a stream that has
\* ended without cancellation has one.
C18_OneTerminalEvent ==
    ~cancelled =>
        /\ \A p \in 1 .. Len(events) : Terminal(events[p]) => p = Len(events)
        /\ pc = "closed" => (events # << >> /\ Terminal(events[Len(events)]))

\* C19: the stream of a client that stays connected, with calls that all
\* end, eventually yields its completion event unless an exception of the
\* pipeline ends it; and a completion event is yielded only when the loop is
\* past every sentence, each of them awaited and then emitted or skipped.
C19_EventuallyComplete ==
    /\ <>(Completed \/ pipeline_error)
    /\ [](Completed =>
            /\ sentence_idx = N
            /\ \A i \in Indices :
                  /\ task[i] \in {"done", "raised"}
                  /\ i \in Sent \cup Skipped)

\* C19 witness: a completed stream of five sentences (more than the two
\* threads and the window of three) with failed and emitted sentences.
C19_Witness ==
    /\ Completed /\ N = 5 /\ ~pipeline_error
    /\ Cardinality(Skipped) = 2 /\ Cardinality(Sent) = 3

\* C21: every sentence of the segmented text is non-empty and neither
\* begins nor ends with whitespace, so no empty string is in the list the
\* dispatch reads.
C21_TrimmedNonEmpty ==
    pc = "segmented" =>
        \A k \in 1 .. Len(sentences) :
            /\ sentences[k] # << >>
            /\ sentences[k][1] \notin Whitespace
            /\ sentences[k][Len(sentences[k])] \notin Whitespace

\* C21 witness: a text that begins with whitespace and has a piece that is
\* empty after trimming; that piece was dropped and a sentence is left.
C21_Witness ==
    /\ pc = "segmented"
    /\ text # << >> /\ text[1] \in Whitespace
    /\ Len(sentences) >= 1
    /\ Len(re_split(text)) > Len(sentences)

NotWhitespace(c) == c \notin Whitespace
NonWhitespace(str) == SelectSeq(str, NotWhitespace)
RECURSIVE Flatten(_)
Flatten(seqs) ==
    IF seqs = << >> THEN << >> ELSE Head(seqs) \o Flatten(Tail(seqs))
IsPartOf(str, t) ==
    \E a \in 1 .. Len(t) - Len(str) + 1 : SubSeq(t, a, a + Len(str) - 1) = str
\* the places of the trimmed text t where whitespace follows a terminal mark
SplitPoints(t) ==
    {p \in 2 .. Len(t) : t[p - 1] \in Punctuation /\ t[p] \in Whitespace}

\* C22: the segmented text is cut exactly at the runs of whitespace that
\* follow a terminal mark: there is one sentence more than such runs in the
\* trimmed text, every sentence is a contiguous part of the text, every
\* sentence but the last ends with its terminal mark, no sentence holds a
\* terminal mark followed by whitespace, and the sentences in order hold the
\* non-whitespace characters of the text in their order.
C22_SplitAfterTerminal ==
    pc = "segmented" =>
        /\ Len(sentences) = IF strip(text) = << >> THEN 0
                            ELSE 1 + Cardinality(SplitPoints(strip(text)))
        /\ \A k \in 1 .. Len(sentences) :
              /\ IsPartOf(sentences[k], text)
              /\ SplitPoints(sentences[k]) = {}
              /\ k < Len(sentences) =>
                    sentences[k][Len(sentences[k])] \in Punctuation
        /\ NonWhitespace(Flatten(sentences)) = NonWhitespace(text)

\* C22 witness: a text with a terminal mark that no whitespace follows,
\* whitespace inside a sentence that follows no terminal mark, and a split.
C22_Witness ==
    /\ pc = "segmented"
    /\ Len(sentences) = 2
    /\ \E p \in 1 .. Len(text) - 1 :
          text[p] \in Punctuation /\ text[p + 1] \notin Whitespace
    /\ \E p \in 2 .. Len(text) - 1 :
          /\ text[p] \in Whitespace
          /\ text[p - 1] \notin Punctuation \cup Whitespace
          /\ text[p + 1] \notin Whitespace

\* The events a call yields when it runs alone, from sentence i on with
\* chunk counter ci, given what each of its synthesis calls returned.
RECURSIVE AloneEvents(_, _, _)
AloneEvents(call, i, ci) ==
    LET n == Len(call.sentences)
        chunks == call.result[i]
    IN IF i >= n THEN <<[event |-> "complete", total_chunks |-> ci]>>
       ELSE IF call.task[i] = "done"
            THEN [s \in 1 .. Len(chunks) |->
                    [event |-> "chunk", chunk_index |-> ci + s - 1,
                     sentence_index |-> i, sub_chunk_index |-> s - 1,
                     total_sentences |-> n, audio |-> chunks[s],
                     is_final |-> (i = n - 1 /\ s = Len(chunks))]]
                 \o AloneEvents(call, i + 1, ci + Len(chunks))
            ELSE AloneEvents(call, i + 1, ci)
CompletedCall(call) ==
    call.events # << >> /\ call.events[Len(call.events)].event = "complete"

\* C23: of two requests served concurrently, each one that has reached its
\* completion event has yielded exactly the events it yields alone with the
\* same results of its sentences, whatever the interleaving of the two.
C23_RequestScoped ==
    /\ CompletedCall(Locals) => events = AloneEvents(Locals, 0, 0)
    /\ CompletedCall(other) => other.events = AloneEvents(other, 0, 0)

\* C23 witness: one request has completed with payloads of two sentences
\* while the other, begun before, is still waiting for a sentence after
\* having sent a payload.
C23_Witness ==
    /\ CompletedCall(Locals) /\ Len(events) >= 3 /\ chunk_index >= 2
    /\ Len(sentences) = 2 /\ task[0] = "done" /\ task[1] = "done"
    /\ other.pc = "await" /\ other.sentence_idx = 1 /\ other.chunk_index = 1

\* finished calls whose result the generator has not taken from its future
Held ==
    {i \in Indices :
        /\ task[i] = "done"
        /\ i > sentence_idx \/ (i = sentence_idx /\ pc = "await")}
\* finished calls of the sentence the loop is at and of later ones
HeldOrInEmission == {i \in Indices : task[i] = "done" /\ i >= sentence_idx}

\* C24 (as stated): the results completed and not yet emitted are never
\* more than PREFETCH_COUNT.
C24_HeldWithinWindow == Cardinality(Held) <= PREFETCH_COUNT

\* C24 (amended): the results completed and not yet fully emitted are never
\* more than PREFETCH_COUNT + 1: that of the sentence the loop is at and at
\* most PREFETCH_COUNT of later sentences.
C24_HeldWithinWindowPlusOne ==
    /\ Cardinality(HeldOrInEmission) <= PREFETCH_COUNT + 1
    /\ Cardinality({i \in HeldOrInEmission : i > sentence_idx})
          <= PREFETCH_COUNT

\* C24 witness: the consumer does not take the payload of sentence 1 while
\* the calls of sentences 2 and 3 have finished, sentence 3 before
\* sentence 2 was taken.
C24_Witness ==
    /\ N = 5 /\ ~cancelled
    /\ pc = "yield_payload" /\ sentence_idx = 1
    /\ task[2] = "done" /\ task[3] = "done"
    /\ Cardinality(HeldOrInEmission) = PREFETCH_COUNT + 1

\* C25: pending_futures has no entry for a sentence the loop is past, and
\* never more than PREFETCH_COUNT + 1 entries.
C25_PendingOnlyUnpassed ==
    /\ \A i \in DOMAIN pending_futures : ~Passed(i)
    /\ Cardinality(DOMAIN pending_futures) <= PREFETCH_COUNT + 1

\* C26: never more than two calls of synthesize_sentence of the stream are
\* executing; a submitted sentence that is not executing yet is in the
\* queue of the executor; an error event is only ever the answer to an
\* exception of the pipeline, not to a full pool; and whenever a work item
\* waits and fewer than two calls are executing, a thread can take it.
C26_AtMostTwoExecuting ==
    /\ Cardinality(Busy) <= 2
    /\ \A i \in Indices :
          task[i] = "queued" =>
              \E q \in 1 .. Len(work_queue) : work_queue[q] = i
    /\ (\E p \in 1 .. Len(events) : events[p].event = "error")
          => pipeline_error
    /\ (work_queue # << >> /\ Cardinality(Busy) < 2) => ENABLED WorkerStart

\* C26 witness: three sentences were submitted at once; the third call has
\* started after the first ended, the second is still executing, and no
\* event has been yielded.
C26_Witness ==
    /\ N >= 3 /\ pc = "await" /\ sentence_idx = 0 /\ events = << >>
    /\ task[0] = "done" /\ task[1] = "running" /\ task[2] = "running"

\* C27: in a stream that has reached its completion event after at least
\* one payload event, the last payload event has is_final = TRUE.
C27_LastPayloadIsFinal ==
    LET ps == Payloads
    IN (Completed /\ ps # << >>) => ps[Len(ps)].is_final

\* a thread has taken the call of sentence i (it executes or has ended)
Taken(i) == task[i] \in {"running", "hung", "done", "raised"}

\* C28: whenever the generator awaits sentence i, every earlier sentence
\* has ended, and if a thread has taken a later sentence then a thread has
\* taken sentence i: it is executing or has ended, not waiting in the
\* queue behind the later one.
C28_AwaitedNotBehindLater ==
    pc = "await" =>
        /\ \A h \in Indices : h < sentence_idx => task[h] \in {"done", "raised"}
        /\ \A j \in Indices :
              (j > sentence_idx /\ Taken(j)) => Taken(sentence_idx)

\* C28 witness: the generator awaits sentence 1, which is executing
\* together with sentence 2, while sentence 3 waits in the queue.
C28_Witness ==
    /\ N >= 4 /\ pc = "await" /\ sentence_idx = 1
    /\ task[1] = "running" /\ task[2] = "running" /\ task[3] = "queued"

\* C29: the payload events of a sentence are consecutive and carry its
\* chunks in order: a payload either begins a sentence later than the one
\* before it, with sub_chunk_index 0, or goes on with the same sentence
\* and the next sub_chunk_index; each carries the chunk of its sub-index;
\* and a sentence the loop is past whose call returned k chunks has exactly
\* k payload events.
C29_SubChunksContiguous ==
    LET ps == Payloads
    IN /\ \A p \in 1 .. Len(ps) :
             /\ ps[p].audio =
                   result[ps[p].sentence_index][ps[p].sub_chunk_index + 1]
             /\ IF p > 1 /\ ps[p - 1].sentence_index = ps[p].sentence_index
                THEN ps[p].sub_chunk_index = ps[p - 1].sub_chunk_index + 1
                ELSE /\ ps[p].sub_chunk_index = 0
                     /\ p > 1 =>
                           ps[p - 1].sentence_index < ps[p].sentence_index
       /\ \A i \in Indices :
             (Passed(i) /\ task[i] = "done") =>
                 Cardinality({p \in 1 .. Len(ps) : ps[p].sentence_index = i})
                     = Len(result[i])

\* C29 witness: both chunks of sentence 0 and the first of the two chunks
\* of sentence 1 have been sent; the call of sentence 2 has already ended
\* and its result waits for the second chunk of sentence 1.
C29_Witness ==
    /\ N >= 3 /\ pc = "yield_payload" /\ sentence_idx = 1
    /\ Len(result[0]) = 2 /\ Len(result[1]) = 2 /\ task[2] = "done"
    /\ Len(events) = 3

\* C30: /health answers 'error' only when the load has failed, answers
\* 'ready' only when model_ready is true and model is not None, and answers
\* 'loading' as long as the load has neither succeeded nor failed.
C30_HealthTellsLoadState ==
    \A a \in 1 .. Len(health_log) :
        /\ health_log[a].status = "error" => health_log[a].failed
        /\ health_log[a].status = "ready" => health_log[a].ready
        /\ ~health_log[a].finished => health_log[a].status = "loading"

====
